---- MODULE Spec2Model ----
(***************************************************************************)
(* A model of sh4der-jockey's frame loop: the hot-reload protocol of       *)
(* Jockey::handle_events / Jockey::update_pipeline, the FILE_CHANGE flag   *)
(* shared with the notify watcher thread, and the GL call sequence that    *)
(* Jockey::draw issues for the stages of the active pipeline.              *)
(*                                                                         *)
(* Time is kept as two saturating clocks (milliseconds): since_build is    *)
(* self.last_build.elapsed(), since_load is the time since the last call   *)
(* of Pipeline::load returned.                                             *)
(*                                                                         *)
(* One call of handle_events is three kinds of step that pc forces in      *)
(* order: the swap of the flag with the debounce test, one step per event  *)
(* that poll_iter() delivers, and the reload with the return.  The watcher *)
(* thread runs between any two of them; draw is one step of the same       *)
(* thread and runs only between two calls of handle_events.                *)
(*                                                                         *)
(* The functions of util (preprocess, compile_shader, link_program,        *)
(* interlace, deinterlace) and the methods of util::Geometry have          *)
(* specifications of their own, PreSpec, ShaderSpec, LaceSpec and GeoSpec: *)
(* call holds one call with its arguments, drawn from bounded sets, and    *)
(* ret what it returned.  Spec leaves call and ret alone, and the other    *)
(* four leave the variables of the frame loop alone.                       *)
(***************************************************************************)
EXTENDS Integers, Sequences, FiniteSets, TLC

\* ---------------------------------------------------------------- bounds
TickMs == 50
MaxElapsed == 150
MaxEvents == 2
PerfLen == 2
MaxPieces == 3
MaxSrcLen == 3
MaxSliceLen == 3

\* ------------------------------------------------------ program constants
DEBOUNCE_MS == 100
InitialWindow == <<1280, 720>>

None == "None"
NoRes == <<>>

Min(a, b) == IF a < b THEN a ELSE b
Max(a, b) == IF a < b THEN b ELSE a

WindowSizes == {InitialWindow, <<640, 360>>}

VARIABLES
    pipeline,      \* Jockey.pipeline: [stages, buffers]
    window,        \* size of ctx.window
    FILE_CHANGE,   \* the static AtomicBool
    since_build,   \* last_build.elapsed(), in ms, saturating at MaxElapsed
    since_load,    \* ms since Pipeline::load last returned, saturating
    done,          \* Jockey.done
    panicked,      \* the process was aborted by a panic in draw
    gl_textures,   \* names of the texture objects that exist in the GL context
    gl_depth_test, \* GL capability DEPTH_TEST
    gl_log,        \* the GL calls of the current (or last) handle_events or draw, in order
    pending,       \* a watcher signal was raised and no reload has started since
    pc,            \* where the frame loop is: "idle", or "poll" inside handle_events
    frame,         \* the locals of the current (or last) call of handle_events
    call,          \* a call of a function of util, with its arguments
    ret            \* what that call returned, NotReturned before it has

vars == <<pipeline, window, FILE_CHANGE, since_build, since_load, done, panicked,
          gl_textures, gl_depth_test, gl_log, pending, pc, frame, call, ret>>

\* the variables of the frame loop, and those of a call of a function of util
jockeyvars == <<pipeline, window, FILE_CHANGE, since_build, since_load, done,
                panicked, gl_textures, gl_depth_test, gl_log, pending, pc, frame>>
utilvars == <<call, ret>>

NoCall == [fn |-> "None"]
NotReturned == [kind |-> "NotReturned"]

\* ------------------------------------------------------------ GL calls
GlCall(op, stage, n, id, name, res) ==
    [op |-> op, stage |-> stage, n |-> n, id |-> id, name |-> name, res |-> res]

\* glGen* hands out the lowest name that is not in use
LowestFree(live) ==
    CHOOSE i \in 1..(Cardinality(live) + 1) :
        i \notin live /\ \A j \in 1..(i - 1) : j \in live

\* ------------------------------------------------------------ Texture
\* Texture::new: one texture object and one framebuffer attached to it
TextureNew(id, res, policy) ==
    [id |-> id, fb |-> id, res |-> res, policy |-> policy, kind |-> "FrameBuffer"]

\* impl Drop for Texture: DeleteTextures + DeleteFramebuffers
TextureDrop(tex) ==
    <<GlCall("DeleteTextures", 0, 0, tex.id, None, NoRes),
      GlCall("DeleteFramebuffers", 0, 0, tex.fb, None, NoRes)>>

EmptyBuffers == [n \in {} |-> 0]

\* Pipeline::new(): no stages, no buffers
PipelineNew == [stages |-> <<>>, buffers |-> EmptyBuffers, src |-> "new"]

\* a set of strings as a sequence (any fixed order)
RECURSIVE SetToSeq(_)
SetToSeq(S) ==
    IF S = {} THEN <<>>
    ELSE LET x == CHOOSE y \in S : TRUE IN <<x>> \o SetToSeq(S \ {x})

\* dropping a Pipeline drops every Texture of its buffer map
RECURSIVE DropTextures(_, _)
DropTextures(buffers, names) ==
    IF names = <<>> THEN <<>>
    ELSE TextureDrop(buffers[Head(names)]) \o DropTextures(buffers, Tail(names))

PipelineDrop(pl) == DropTextures(pl.buffers, SetToSeq(DOMAIN pl.buffers))

TextureIds(pl) == {pl.buffers[n].id : n \in DOMAIN pl.buffers}

\* ------------------------------------------------- pipeline descriptions
\* A stage as pipeline.json declares it.  resolution is <<w, h, d>> or NoRes.
StageSpec(kind, deps, target, resolution, count, tex_dim) ==
    [kind |-> kind, deps |-> deps, target |-> target, resolution |-> resolution,
     count |-> count, tex_dim |-> tex_dim]

BufferSpec(name, policy, res) == [name |-> name, policy |-> policy, res |-> res]

Description(name, fault, buffers, stages) ==
    [name |-> name, fault |-> fault, buffers |-> buffers, stages |-> stages]

FullStages ==
    <<StageSpec("Comp", <<"b">>, None, NoRes, 0, <<8, 0, 0>>),
      StageSpec("Frag", <<"b">>, "a", NoRes, 0, <<0, 0, 0>>),
      StageSpec("Vert", <<"a", "b">>, None, NoRes, 3, <<0, 0, 0>>),
      StageSpec("Frag", <<"a">>, "b", <<256, 256, 0>>, 0, <<0, 0, 0>>)>>

FullBuffers ==
    <<BufferSpec("a", "WindowSized", NoRes), BufferSpec("b", "Fixed", <<256, 256>>)>>

SmallStages ==
    <<StageSpec("Frag", <<>>, "a", <<64, 64, 1>>, 0, <<0, 0, 0>>),
      StageSpec("Frag", <<"a">>, None, NoRes, 0, <<0, 0, 0>>)>>

SmallBuffers == <<BufferSpec("a", "WindowSized", NoRes)>>

\* what the files on disk may hold when a load reads them
Descriptions ==
    { Description("full", "none", FullBuffers, FullStages),
      Description("small", "none", SmallBuffers, SmallStages),
      Description("baddep", "none", SmallBuffers,
                  <<StageSpec("Frag", <<"zz">>, None, NoRes, 0, <<0, 0, 0>>)>>),
      Description("badtarget", "none", SmallBuffers,
                  <<StageSpec("Frag", <<"a">>, "zz", NoRes, 0, <<0, 0, 0>>)>>),
      Description("parse", "parse", <<>>, <<>>),
      Description("include", "include", SmallBuffers, SmallStages),
      Description("compile", "compile", FullBuffers, FullStages),
      Description("link", "link", SmallBuffers, SmallStages) }

\* ------------------------------------------------------- Pipeline::load
\* the registry allocates every declared buffer, in declaration order
RECURSIVE AllocateBuffers(_, _, _, _, _)
AllocateBuffers(specs, win, live, acc, log) ==
    IF specs = <<>> THEN [buffers |-> acc, live |-> live, log |-> log]
    ELSE LET s == Head(specs)
             id == LowestFree(live)
             res == IF s.policy = "WindowSized" THEN win ELSE s.res
         IN AllocateBuffers(Tail(specs), win, live \cup {id},
                            (s.name :> TextureNew(id, res, s.policy)) @@ acc,
                            log \o <<GlCall("GenTextures", 0, 0, id, s.name, res),
                                     GlCall("GenFramebuffers", 0, 0, id, s.name, res)>>)

\* a Stage as built from its declaration; its rolling average starts empty
StageBuild(k, s) ==
    [prog_id |-> k, kind |-> s.kind, deps |-> s.deps, target |-> s.target,
     resolution |-> s.resolution, count |-> s.count, tex_dim |-> s.tex_dim,
     perf |-> 0]

BufferNames(d) == {d.buffers[i].name : i \in DOMAIN d.buffers}

\* every dependency and target name of every stage names a declared buffer
Resolved(d) ==
    \A k \in DOMAIN d.stages :
        /\ \A j \in DOMAIN d.stages[k].deps : d.stages[k].deps[j] \in BufferNames(d)
        /\ d.stages[k].target # None => d.stages[k].target \in BufferNames(d)

\* The result of Pipeline::load.  ok: Ok(pl); otherwise Err(err), and pl is
\* what had been built when the error was found, which load drops before it
\* returns (log holds the GL calls of the build and of that drop).
PipelineLoad(d, win, live) ==
    LET early == d.fault # "none"
        alloc == IF early THEN [buffers |-> EmptyBuffers, live |-> live, log |-> <<>>]
                 ELSE AllocateBuffers(d.buffers, win, live, EmptyBuffers, <<>>)
        built == [stages |-> IF early THEN <<>>
                             ELSE [k \in DOMAIN d.stages |-> StageBuild(k, d.stages[k])],
                  buffers |-> alloc.buffers,
                  src |-> d.name]
        ok == ~early /\ Resolved(d)
    IN [ok |-> ok,
        pl |-> built,
        err |-> IF early THEN d.fault ELSE IF ok THEN None ELSE "unresolved",
        log |-> IF ok THEN alloc.log ELSE alloc.log \o PipelineDrop(built)]

\* ------------------------------------------- Pipeline::resize_buffers
\* every WindowSized buffer is destroyed and recreated at the new size, under
\* the same name; Fixed buffers are not touched
RECURSIVE ResizeEach(_, _, _, _, _)
ResizeEach(names, buffers, win, live, log) ==
    IF names = <<>> THEN [buffers |-> buffers, live |-> live, log |-> log]
    ELSE LET n == Head(names)
             old == buffers[n]
         IN IF old.policy # "WindowSized"
            THEN ResizeEach(Tail(names), buffers, win, live, log)
            ELSE LET freed == live \ {old.id}
                     id == LowestFree(freed)
                 IN ResizeEach(Tail(names),
                               [buffers EXCEPT ![n] = TextureNew(id, win, old.policy)],
                               win, freed \cup {id},
                               log \o TextureDrop(old)
                                   \o <<GlCall("GenTextures", 0, 0, id, n, win),
                                        GlCall("GenFramebuffers", 0, 0, id, n, win)>>)

resize_buffers(pl, win, live) ==
    LET r == ResizeEach(SetToSeq(DOMAIN pl.buffers), pl.buffers, win, live, <<>>)
    IN [pl |-> [pl EXCEPT !.buffers = r.buffers], live |-> r.live, log |-> r.log]

\* update_pipeline as it would be if a failed load were assigned as well
update_pipeline_partial(pl, d, win, live) ==
    LET r == PipelineLoad(d, win, live)
    IN [pl |-> r.pl,
        live |-> (live \cup TextureIds(r.pl)) \ TextureIds(pl),
        log |-> r.log \o PipelineDrop(pl),
        ok |-> r.ok,
        stderr |-> IF r.ok THEN None ELSE "Failed to load pipeline"]

\* update_pipeline as it would be if the old pipeline were dropped before the
\* load instead of by the assignment after it
update_pipeline_drop_first(pl, d, win, live) ==
    LET freed == live \ TextureIds(pl)
        r == PipelineLoad(d, win, freed)
    IN IF r.ok
       THEN [pl |-> r.pl, live |-> freed \cup TextureIds(r.pl),
             log |-> PipelineDrop(pl) \o r.log,
             ok |-> TRUE, stderr |-> None]
       ELSE [pl |-> PipelineNew, live |-> freed, log |-> PipelineDrop(pl) \o r.log,
             ok |-> FALSE, stderr |-> "Failed to load pipeline"]

\* ---------------------------------------------- Jockey::update_pipeline
\* d is what the files hold when Pipeline::load reads them.  On Ok the new
\* pipeline is assigned to self.pipeline, which drops the old one; on Err the
\* error is printed to stderr and nothing is assigned.
update_pipeline(pl, d, win, live) ==
    LET r == PipelineLoad(d, win, live)
    IN IF r.ok
       THEN [pl |-> r.pl,
             live |-> (live \cup TextureIds(r.pl)) \ TextureIds(pl),
             log |-> r.log \o PipelineDrop(pl),
             ok |-> TRUE, stderr |-> None]
       ELSE [pl |-> pl, live |-> live, log |-> r.log,
             ok |-> FALSE, stderr |-> "Failed to load pipeline"]

\* ------------------------------------------------ the watcher callback
\* |_| unsafe { FILE_CHANGE.store(true, Ordering::Relaxed) }
WatcherStore(flag) == TRUE

\* the swap as it would be if the flag were only loaded, never cleared
FileChangeSwap_load(flag) == [read |-> flag, left |-> flag]

\* FILE_CHANGE.swap(false, Ordering::Relaxed): the value read, the value left
FileChangeSwap(flag) == [read |-> flag, left |-> FALSE]

\* ------------------------------------------------- Jockey::handle_events
Event(type, keycode, keymod, size, ignore) ==
    [type |-> type, keycode |-> keycode, keymod |-> keymod, size |-> size,
     ignore |-> ignore]

\* the events one poll of the event pump can deliver; ignore is what
\* imgui_sdl2.ignore_event answers (keyboard captured by the UI)
Events ==
    { Event("Quit", None, None, NoRes, FALSE),
      Event("KeyDown", "Return", "LCTRLMOD", NoRes, FALSE),
      Event("KeyDown", "Return", "LCTRLMOD", NoRes, TRUE),
      Event("KeyDown", "Return", "NOMOD", NoRes, FALSE) }
    \cup { Event("Window", None, None, sz, FALSE) : sz \in WindowSizes }

\* Event::KeyDown { keycode: Some(Keycode::Return), keymod, .. }
\*     if keymod & Mod::LCTRLMOD != Mod::NOMOD
IsManualReload(e) ==
    e.type = "KeyDown" /\ e.keycode = "Return" /\ e.keymod = "LCTRLMOD"

\* let mut do_update_pipeline = FILE_CHANGE.swap(false) && last_build.elapsed() > 100
DebounceTest(read, elapsed) == read /\ elapsed > DEBOUNCE_MS

\* The locals of one call of handle_events.  read, file_trigger, manual,
\* resized, polled, attempts, ok and stderr record what the call has done so far.
FrameStart(read, elapsed) ==
    [do_update_pipeline |-> DebounceTest(read, elapsed),
     read |-> read, file_trigger |-> DebounceTest(read, elapsed),
     manual |-> FALSE, resized |-> NoRes, polled |-> 0,
     attempts |-> 0, ok |-> FALSE, stderr |-> None]

\* the loop body as it would be if the manual trigger were subject to the
\* debounce test like the file-change flag
HandleEvent_debounced(st, e) ==
    LET seen == IF e.type = "Window"
                THEN [st EXCEPT !.window = e.size, !.f.resized = e.size]
                ELSE st
    IN IF e.ignore THEN seen
       ELSE IF e.type = "Quit" THEN [seen EXCEPT !.done = TRUE]
       ELSE IF IsManualReload(e)
            THEN [seen EXCEPT !.f.do_update_pipeline = seen.f.file_trigger,
                              !.f.manual = TRUE]
       ELSE IF e.type = "Window" /\ ~seen.f.do_update_pipeline
            THEN LET r == resize_buffers(seen.pl, e.size, seen.live)
                 IN [seen EXCEPT !.pl = r.pl, !.live = r.live,
                                 !.log = seen.log \o r.log]
       ELSE seen

\* the loop body as it would be if the manual trigger called update_pipeline
\* at once, in the middle of the loop, and left do_update_pipeline alone
HandleEvent_reload_at_once(st, e) ==
    LET seen == IF e.type = "Window"
                THEN [st EXCEPT !.window = e.size, !.f.resized = e.size]
                ELSE st
    IN IF e.ignore THEN seen
       ELSE IF e.type = "Quit" THEN [seen EXCEPT !.done = TRUE]
       ELSE IF IsManualReload(e)
            THEN LET up == update_pipeline(seen.pl,
                                           Description("small", "none", SmallBuffers,
                                                       SmallStages),
                                           seen.window, seen.live)
                 IN [seen EXCEPT !.f.manual = TRUE, !.f.attempts = @ + 1,
                                 !.pl = up.pl, !.live = up.live,
                                 !.log = seen.log
                                         \o <<GlCall("LoadBegin", 0, 0, 0, None, NoRes)>>
                                         \o up.log]
       ELSE IF e.type = "Window" /\ ~seen.f.do_update_pipeline
            THEN LET r == resize_buffers(seen.pl, e.size, seen.live)
                 IN [seen EXCEPT !.pl = r.pl, !.live = r.live,
                                 !.log = seen.log \o r.log]
       ELSE seen

\* one iteration of the loop over event_pump.poll_iter(): st holds the locals
\* (f), self.pipeline (pl), self.done, the window size, the live GL textures
\* and the GL calls issued
HandleEvent(st, e) ==
    LET seen == IF e.type = "Window"
                THEN [st EXCEPT !.window = e.size, !.f.resized = e.size]
                ELSE st
    IN IF e.ignore THEN seen
       ELSE IF e.type = "Quit" THEN [seen EXCEPT !.done = TRUE]
       ELSE IF IsManualReload(e)
            THEN [seen EXCEPT !.f.do_update_pipeline = TRUE, !.f.manual = TRUE]
       ELSE IF e.type = "Window" /\ ~seen.f.do_update_pipeline
            THEN LET r == resize_buffers(seen.pl, e.size, seen.live)
                 IN [seen EXCEPT !.pl = r.pl, !.live = r.live,
                                 !.log = seen.log \o r.log]
       ELSE seen

\* ------------------------------------------------------- Jockey::draw
\* the match as it would be if it took the override whatever its depth
TargetRes_any_depth(stage, win) ==
    IF stage.resolution # NoRes
    THEN <<stage.resolution[1], stage.resolution[2]>>
    ELSE win

\* match stage.resolution() { Some([w, h, 0]) => (w, h), _ => (width, height) }
TargetRes(stage, win) ==
    IF stage.resolution # NoRes /\ stage.resolution[3] = 0
    THEN <<stage.resolution[1], stage.resolution[2]>>
    ELSE win

\* the uniforms every stage gets: R, time, beat, sliders, buttons, vertexCount
UniformCalls(k, stage, win) ==
    <<GlCall("UseProgram", k, 0, stage.prog_id, None, NoRes),
      GlCall("Uniform3f", k, 0, 0, "R", TargetRes(stage, win)),
      GlCall("Uniform1f", k, 0, 0, "time", NoRes),
      GlCall("Uniform1f", k, 0, 0, "beat", NoRes),
      GlCall("Uniform1fv", k, 8, 0, "sliders", NoRes),
      GlCall("Uniform1fv", k, 8, 0, "buttons", NoRes)>>
    \o (IF stage.kind = "Vert"
        THEN <<GlCall("Uniform1f", k, stage.count, 0, "vertexCount", NoRes)>>
        ELSE <<>>)

\* the loop as it would be if it bound every dependency to texture unit 0
RECURSIVE DepCalls_unit0(_, _, _, _)
DepCalls_unit0(k, stage, buffers, j) ==
    IF j > Len(stage.deps) THEN <<>>
    ELSE LET name == stage.deps[j]
             tex == buffers[name]
         IN <<GlCall("ActiveTexture", k, 0, 0, name, NoRes),
              GlCall("BindTexture", k, 0, tex.id, name, NoRes),
              GlCall("BindImageTexture", k, 0, tex.id, "WRITE_ONLY", NoRes),
              GlCall("Uniform1i", k, j - 1, 0, name, NoRes)>>
            \o DepCalls_unit0(k, stage, buffers, j + 1)

\* for (k, name) in stage.deps.iter().enumerate(): j is k + 1
RECURSIVE DepCalls(_, _, _, _)
DepCalls(k, stage, buffers, j) ==
    IF j > Len(stage.deps) THEN <<>>
    ELSE LET name == stage.deps[j]
             tex == buffers[name]
         IN <<GlCall("ActiveTexture", k, j - 1, 0, name, NoRes),
              GlCall("BindTexture", k, j - 1, tex.id, name, NoRes),
              GlCall("BindImageTexture", k, 0, tex.id, "WRITE_ONLY", NoRes),
              GlCall("Uniform1i", k, j - 1, 0, name, NoRes)>>
            \o DepCalls(k, stage, buffers, j + 1)

\* draw_fullscreen_rect: six vertices as triangles
draw_fullscreen_rect(k) ==
    <<GlCall("BindVertexArray", k, 0, 0, None, NoRes),
      GlCall("BindBuffer", k, 0, 0, None, NoRes),
      GlCall("BufferData", k, 12, 0, None, NoRes),
      GlCall("DrawArrays", k, 6, 0, "TRIANGLES", NoRes)>>

\* draw_anything: count vertices, no vertex data
draw_anything(k, count) ==
    <<GlCall("BindVertexArray", k, 0, 0, None, NoRes),
      GlCall("BindBuffer", k, 0, 0, None, NoRes),
      GlCall("BufferData", k, 0, 0, None, NoRes),
      GlCall("DrawArrays", k, count, 0, "mode", NoRes)>>

\* the Comp arm as it would be without the barrier after the dispatch
ComputeCalls_nobarrier(k, stage) ==
    <<GlCall("DispatchCompute", k, 0, 0, None,
             <<stage.tex_dim[1], Max(stage.tex_dim[2], 1), Max(stage.tex_dim[3], 1)>>)>>

\* StageKind::Comp { tex_dim, .. }: the dispatch, then the barrier
ComputeCalls(k, stage) ==
    <<GlCall("DispatchCompute", k, 0, 0, None,
             <<stage.tex_dim[1], Max(stage.tex_dim[2], 1), Max(stage.tex_dim[3], 1)>>),
      GlCall("MemoryBarrier", k, 0, 0, "SHADER_IMAGE_ACCESS_BARRIER_BIT", NoRes)>>

\* the other arm: render target, viewport, vertex layout, draw, mip maps
RasterCalls(k, stage, buffers, win) ==
    LET target_tex == IF stage.target # None THEN buffers[stage.target].id ELSE 0
        target_fb == IF stage.target # None THEN buffers[stage.target].fb ELSE 0
    IN <<GlCall("BindFramebuffer", k, 0, target_fb, None, NoRes),
         GlCall("Viewport", k, 0, 0, None, TargetRes(stage, win)),
         GlCall("BindFragDataLocation", k, 0, stage.prog_id, "out_color", NoRes),
         GlCall("EnableVertexAttribArray", k, 0, 0, "position", NoRes),
         GlCall("VertexAttribPointer", k, 2, 0, "position", NoRes)>>
       \o (IF stage.kind = "Vert"
           THEN <<GlCall("ClearColor", k, 0, 0, None, NoRes),
                  GlCall("ClearDepth", k, 1, 0, None, NoRes),
                  GlCall("Clear", k, 0, 0, "COLOR_BUFFER_BIT|DEPTH_BUFFER_BIT", NoRes),
                  GlCall("Enable", k, 0, 0, "DEPTH_TEST", NoRes),
                  GlCall("DepthMask", k, 1, 0, None, NoRes),
                  GlCall("DepthFunc", k, 0, 0, "LEQUAL", NoRes),
                  GlCall("DepthRange", k, 0, 0, None, NoRes)>>
                \o draw_anything(k, stage.count)
           ELSE draw_fullscreen_rect(k))
       \o <<GlCall("BindTexture", k, 0, target_tex, "target", NoRes),
            GlCall("GenerateMipmap", k, 0, target_tex, "TEXTURE_2D", NoRes)>>

\* the match on stage.kind
DispatchCalls(k, stage, buffers, win) ==
    IF stage.kind = "Comp" THEN ComputeCalls(k, stage)
    ELSE RasterCalls(k, stage, buffers, win)

\* one iteration of the loop over self.pipeline.stages
StageCalls(k, stage, buffers, win) ==
    UniformCalls(k, stage, win)
    \o DepCalls(k, stage, buffers, 1)
    \o DispatchCalls(k, stage, buffers, win)
    \o <<GlCall("PerfPush", k, 0, 0, None, NoRes)>>

\* stage.perf.push(..): the rolling average takes one sample
PerfPush(perf) == (perf + 1) % PerfLen

\* buffers.get(name).unwrap(), buffers[name] and the FrameBuffer match succeed
StageLookupsOk(stage, buffers) ==
    /\ \A j \in DOMAIN stage.deps : stage.deps[j] \in DOMAIN buffers
    /\ (stage.kind # "Comp" /\ stage.target # None)
          => /\ stage.target \in DOMAIN buffers
             /\ buffers[stage.target].kind = "FrameBuffer"

\* the loop as it would be if a compute stage left it right after its dispatch,
\* before the timing sample is pushed
RECURSIVE DrawStages_continue(_, _, _, _)
DrawStages_continue(pl, win, k, acc) ==
    IF k > Len(pl.stages) THEN acc
    ELSE IF ~StageLookupsOk(pl.stages[k], pl.buffers)
         THEN [acc EXCEPT !.panic = TRUE]
         ELSE IF pl.stages[k].kind = "Comp"
              THEN DrawStages_continue(pl, win, k + 1,
                       [acc EXCEPT !.log = acc.log \o UniformCalls(k, pl.stages[k], win)
                                            \o DepCalls(k, pl.stages[k], pl.buffers, 1)
                                            \o DispatchCalls(k, pl.stages[k], pl.buffers, win)])
              ELSE DrawStages_continue(pl, win, k + 1,
                       [acc EXCEPT !.log = acc.log \o StageCalls(k, pl.stages[k], pl.buffers, win),
                                   !.stages[k].perf = PerfPush(pl.stages[k].perf)])

\* the stages are visited front to back; a failed lookup panics
RECURSIVE DrawStages(_, _, _, _)
DrawStages(pl, win, k, acc) ==
    IF k > Len(pl.stages) THEN acc
    ELSE IF ~StageLookupsOk(pl.stages[k], pl.buffers)
         THEN [acc EXCEPT !.panic = TRUE]
         ELSE DrawStages(pl, win, k + 1,
                  [acc EXCEPT !.log = acc.log \o StageCalls(k, pl.stages[k], pl.buffers, win),
                              !.stages[k].perf = PerfPush(pl.stages[k].perf)])

draw(pl, win) ==
    DrawStages(pl, win, 1, [panic |-> FALSE, log |-> <<>>, stages |-> pl.stages])

\* glEnable(GL_DEPTH_TEST) is the only call of draw that changes the capability
DepthTestAfter(enabled, log) ==
    enabled \/ \E i \in DOMAIN log : log[i].op = "Enable" /\ log[i].name = "DEPTH_TEST"

\* ------------------------------------------------------------ the system
InitLoadMs == {0, TickMs, 2 * TickMs}

\* Jockey::init: window, Pipeline::new(), last_build = now, the watcher, and
\* last the first update_pipeline, which takes ms milliseconds; the watcher
\* may have raised the flag by then
Init ==
    \E d \in Descriptions, ms \in InitLoadMs, raised \in BOOLEAN :
        LET up == update_pipeline(PipelineNew, d, InitialWindow, {})
        IN /\ pipeline = up.pl
           /\ window = InitialWindow
           /\ FILE_CHANGE = raised
           /\ pending = raised
           /\ since_build = Min(ms, MaxElapsed)
           /\ since_load = 0
           /\ done = FALSE
           /\ panicked = FALSE
           /\ gl_textures = up.live
           /\ gl_depth_test = FALSE
           /\ gl_log = <<GlCall("LoadBegin", 0, 0, 0, None, NoRes)>> \o up.log
           /\ pc = "idle"
           /\ frame = [FrameStart(FALSE, 0) EXCEPT !.attempts = 1, !.ok = up.ok,
                                                   !.stderr = up.stderr]
           /\ call = NoCall
           /\ ret = NotReturned

Running == ~done /\ ~panicked

\* the notify watcher thread reports a change under the working tree
Watcher ==
    /\ ~panicked /\ (~done \/ pc # "idle")
    /\ FILE_CHANGE' = WatcherStore(FILE_CHANGE)
    /\ pending' = TRUE
    /\ UNCHANGED <<pipeline, window, since_build, since_load, done, panicked,
                   gl_textures, gl_depth_test, gl_log, pc, frame>>
    /\ UNCHANGED utilvars

\* TickMs milliseconds pass between two calls of the frame loop
Tick ==
    /\ Running /\ pc = "idle"
    /\ since_build < MaxElapsed \/ since_load < MaxElapsed
    /\ since_build' = Min(since_build + TickMs, MaxElapsed)
    /\ since_load' = Min(since_load + TickMs, MaxElapsed)
    /\ UNCHANGED <<pipeline, window, FILE_CHANGE, done, panicked, gl_textures,
                   gl_depth_test, gl_log, pending, pc, frame>>
    /\ UNCHANGED utilvars

\* handle_events is entered: the flag is swapped and the debounce test made
HandleEventsBegin ==
    /\ Running /\ pc = "idle"
    /\ LET sw == FileChangeSwap(FILE_CHANGE)
       IN /\ FILE_CHANGE' = sw.left
          /\ frame' = FrameStart(sw.read, since_build)
    /\ pc' = "poll"
    /\ gl_log' = <<>>
    /\ UNCHANGED <<pipeline, window, since_build, since_load, done, panicked,
                   gl_textures, gl_depth_test, pending>>
    /\ UNCHANGED utilvars

\* the event pump delivers e to the loop of handle_events
PollEvent(e) ==
    /\ pc = "poll" /\ frame.polled < MaxEvents
    /\ LET st == HandleEvent([f |-> frame, pl |-> pipeline, done |-> done,
                              window |-> window, live |-> gl_textures,
                              log |-> gl_log], e)
       IN /\ frame' = [st.f EXCEPT !.polled = frame.polled + 1]
          /\ pipeline' = st.pl
          /\ done' = st.done
          /\ window' = st.window
          /\ gl_textures' = st.live
          /\ gl_log' = st.log
    /\ UNCHANGED <<FILE_CHANGE, since_build, since_load, panicked, gl_depth_test,
                   pending, pc>>
    /\ UNCHANGED utilvars

\* the event pump is empty: if do_update_pipeline { update_pipeline();
\* last_build = now }, and handle_events returns
HandleEventsEnd(d) ==
    /\ pc = "poll"
    /\ pc' = "idle"
    /\ IF frame.do_update_pipeline
       THEN LET up == update_pipeline(pipeline, d, window, gl_textures)
            IN /\ pipeline' = up.pl
               /\ gl_textures' = up.live
               /\ gl_log' = gl_log \o <<GlCall("LoadBegin", 0, 0, 0, None, NoRes)>>
                                   \o up.log
               /\ frame' = [frame EXCEPT !.attempts = 1, !.ok = up.ok,
                                         !.stderr = up.stderr, !.polled = 0]
               /\ since_build' = 0
               /\ since_load' = 0
               /\ pending' = FALSE
       ELSE /\ frame' = [frame EXCEPT !.polled = 0]
            /\ UNCHANGED <<pipeline, gl_textures, gl_log, since_build,
                           since_load, pending>>
    /\ UNCHANGED <<window, FILE_CHANGE, done, panicked, gl_depth_test>>
    /\ UNCHANGED utilvars

\* one call of draw by the frame loop
Draw ==
    /\ Running /\ pc = "idle"
    /\ LET r == draw(pipeline, window)
       IN /\ pipeline' = [pipeline EXCEPT !.stages = r.stages]
          /\ panicked' = r.panic
          /\ gl_log' = r.log
          /\ gl_depth_test' = DepthTestAfter(gl_depth_test, r.log)
    /\ UNCHANGED <<window, FILE_CHANGE, since_build, since_load, done,
                   gl_textures, pending, pc, frame>>
    /\ UNCHANGED utilvars

Next ==
    \/ Watcher
    \/ Tick
    \/ HandleEventsBegin
    \/ \E e \in Events : PollEvent(e)
    \/ \E d \in Descriptions : HandleEventsEnd(d)
    \/ Draw

Spec == Init /\ [][Next]_vars

\* the frame loop keeps running and time keeps passing
FairSpec ==
    /\ Spec
    /\ WF_vars(HandleEventsBegin)
    /\ WF_vars(\E d \in Descriptions : HandleEventsEnd(d))
    /\ WF_vars(Tick)

\* the frame loop has not started: what a call of a function of util finds
JockeyIdle ==
    /\ pipeline = PipelineNew
    /\ window = InitialWindow
    /\ FILE_CHANGE = FALSE
    /\ since_build = 0
    /\ since_load = 0
    /\ done = FALSE
    /\ panicked = FALSE
    /\ gl_textures = {}
    /\ gl_depth_test = FALSE
    /\ gl_log = <<>>
    /\ pending = FALSE
    /\ pc = "idle"
    /\ frame = FrameStart(FALSE, 0)

\* ------------------------------------------------------ util::preprocess
\* Text is a sequence of tokens: "#include" is any text that
\* #\s*(pragma\s*)?include\s+ matches, "QUOTE", "LT" and "GT" are the
\* characters ", < and >, "NL" is a newline, any other token is other text.
\* A file name is the sequence of tokens the group (?P<file>.*) captures.
OpenDelims == {"LT", "QUOTE"}
CloseDelims == {"GT", "QUOTE"}

\* INCLUDE_RE matches code[i..j]: the head, [<"], .* (no newline), [>"]
IsMatch(code, i, j) ==
    /\ i + 2 <= j /\ j <= Len(code)
    /\ code[i] = "#include"
    /\ code[i + 1] \in OpenDelims
    /\ code[j] \in CloseDelims
    /\ \A k \in (i + 2)..(j - 1) : code[k] # "NL"

\* INCLUDE_RE.find(code): the leftmost match, .* taking as much as it can
INCLUDE_RE_find(code) ==
    LET starts == {i \in DOMAIN code : \E j \in DOMAIN code : IsMatch(code, i, j)}
    IN IF starts = {}
       THEN [found |-> FALSE, start |-> 0, end |-> 0, file |-> <<>>]
       ELSE LET i == CHOOSE x \in starts : \A y \in starts : x <= y
                j == CHOOSE x \in DOMAIN code :
                        /\ IsMatch(code, i, x)
                        /\ \A y \in DOMAIN code : IsMatch(code, i, y) => y <= x
            IN [found |-> TRUE, start |-> i, end |-> j,
                file |-> SubSeq(code, i + 2, j - 1)]

\* a file of the working directory: its contents, or why it cannot be read
Readable(text) == [ok |-> TRUE, text |-> text, err |-> None]
Unreadable(err) == [ok |-> FALSE, text |-> <<>>, err |-> err]

NotFound == "No such file or directory (os error 2)"
PermissionDenied == "Permission denied (os error 13)"

\* read_to_string as it would be if a file that cannot be read were empty
read_to_string_lenient(file_name, files) ==
    IF file_name \in DOMAIN files /\ files[file_name].ok
    THEN files[file_name]
    ELSE Readable(<<>>)

\* std::fs::read_to_string(file_name)
read_to_string(file_name, files) ==
    IF file_name \in DOMAIN files THEN files[file_name] ELSE Unreadable(NotFound)

\* format!("Cycle detected! File {} has been included further down the tree", file_name)
CycleDetected(file_name) ==
    [text |-> "Cycle detected! File {} has been included further down the tree",
     file |-> file_name]

\* e.to_string()
IoError(err) == [text |-> err, file |-> None]

\* Result<String, String>; reads lists the names given to read_to_string, in order
Ok(value, reads) == [kind |-> "Ok", value |-> value, reads |-> reads]
Err(value, reads) == [kind |-> "Err", value |-> value, reads |-> reads]

\* a result of recurse with its depth: the largest number of file expansions
\* nested in each other that the call made
Nested(result, depth) == result @@ [depth |-> depth]

\* the room of the call stack, in calls of recurse
MaxFrames == 6

\* recurse as it would be without the cycle test, on a call stack with room for
\* frames more calls: when the stack is used up the process ends, and nothing
\* is returned to the caller of preprocess
RECURSIVE recurse_no_cycle_test(_, _, _, _)
recurse_no_cycle_test(code, seen, files, frames) ==
    LET include == INCLUDE_RE_find(code)
        file_name == include.file
        inserted == seen \cup {file_name}
        read == read_to_string(file_name, files)
        prefix == SubSeq(code, 1, include.start - 1)
        file == recurse_no_cycle_test(read.text, inserted, files, frames - 1)
        postfix == recurse_no_cycle_test(SubSeq(code, include.end + 1, Len(code)),
                                         inserted, files, frames - 1)
    IN IF frames = 0
       THEN Nested([kind |-> "StackOverflow", value |-> <<>>, reads |-> <<>>], 0)
       ELSE IF ~include.found THEN Nested(Ok(code, <<>>), 0)
       ELSE IF ~read.ok THEN Nested(Err(IoError(read.err), <<file_name>>), 0)
       ELSE IF file.kind # "Ok"
            THEN Nested([kind |-> file.kind, value |-> file.value,
                         reads |-> <<file_name>> \o file.reads], 1 + file.depth)
       ELSE IF postfix.kind # "Ok"
            THEN Nested([kind |-> postfix.kind, value |-> postfix.value,
                         reads |-> <<file_name>> \o file.reads \o postfix.reads],
                        Max(1 + file.depth, postfix.depth))
       ELSE Nested(Ok(prefix \o file.value \o postfix.value,
                      <<file_name>> \o file.reads \o postfix.reads),
                   Max(1 + file.depth, postfix.depth))

\* preprocess as it would be without the cycle test
preprocess_no_cycle_test(code, files) ==
    recurse_no_cycle_test(code, {}, files, MaxFrames)

\* fn recurse(code: &str, mut seen: HashSet<String>): file_name is inserted
\* into seen before the file is read; the file is expanded with a clone of
\* seen and the text after the directive with seen itself
RECURSIVE recurse(_, _, _)
recurse(code, seen, files) ==
    LET include == INCLUDE_RE_find(code)
        file_name == include.file
        inserted == seen \cup {file_name}
        read == read_to_string(file_name, files)
        prefix == SubSeq(code, 1, include.start - 1)
        file == recurse(read.text, inserted, files)
        postfix == recurse(SubSeq(code, include.end + 1, Len(code)), inserted, files)
    IN IF ~include.found THEN Nested(Ok(code, <<>>), 0)
       ELSE IF file_name \in seen THEN Nested(Err(CycleDetected(file_name), <<>>), 0)
       ELSE IF ~read.ok THEN Nested(Err(IoError(read.err), <<file_name>>), 0)
       ELSE IF file.kind = "Err"
            THEN Nested(Err(file.value, <<file_name>> \o file.reads), 1 + file.depth)
       ELSE IF postfix.kind = "Err"
            THEN Nested(Err(postfix.value, <<file_name>> \o file.reads \o postfix.reads),
                        Max(1 + file.depth, postfix.depth))
       ELSE Nested(Ok(prefix \o file.value \o postfix.value,
                      <<file_name>> \o file.reads \o postfix.reads),
                   Max(1 + file.depth, postfix.depth))

\* recurse(code, HashSet::new())
preprocess(code, files) == recurse(code, {}, files)

\* #include "name"
Directive(name) == <<"#include", "QUOTE", name, "QUOTE">>

FileA == <<"A">>
FileB == <<"B">>
FileC == <<"C">>

Files(a, b, c) == (FileA :> a) @@ (FileB :> b) @@ (FileC :> c)

\* what the working directory may hold
FileSystems ==
    { \* A includes B includes C
      Files(Readable(<<"a">> \o Directive("B") \o <<"a">>),
            Readable(<<"b">> \o Directive("C") \o <<"b">>),
            Readable(<<"c">>)),
      \* A includes B includes A
      Files(Readable(Directive("B")), Readable(Directive("A")), Readable(<<"c">>)),
      \* A includes itself
      Files(Readable(<<"a">> \o Directive("A")), Readable(<<"b">>), Readable(<<"c">>)),
      \* A includes C twice, one directive after the other
      Files(Readable(Directive("C") \o <<"NL">> \o Directive("C")),
            Readable(Directive("C")), Readable(<<"c">>)),
      \* A and B both include C
      Files(Readable(Directive("C") \o <<"a">>), Readable(Directive("C") \o <<"b">>),
            Readable(<<"c">>)),
      \* C cannot be read
      Files(Readable(Directive("B")), Readable(<<"b">> \o Directive("C")),
            Unreadable(PermissionDenied)),
      \* A holds a quoted name and no directive
      Files(Readable(<<"QUOTE", "B", "QUOTE">>), Readable(<<"b">>), Readable(<<"c">>)),
      \* three files without directives
      Files(Readable(<<"a">>), Readable(<<"b">>), Readable(<<"c">>)) }
    \cup
    { \* C does not exist
      (FileA :> Readable(Directive("B"))) @@ (FileB :> Readable(<<"b">> \o Directive("C"))) }

\* the pieces a source text is put together from
Pieces ==
    {<<"x">>, <<"NL">>, <<"#include">>, Directive("A"), Directive("B"), Directive("C")}

RECURSIVE CodesOf(_)
CodesOf(n) ==
    IF n = 0 THEN {<<>>}
    ELSE LET shorter == CodesOf(n - 1)
         IN shorter \cup {c \o p : c \in shorter, p \in Pieces}

\* the texts preprocess is called on: up to MaxPieces pieces, or what a file holds
Codes ==
    CodesOf(MaxPieces)
    \cup {fs[f].text : fs \in FileSystems, f \in {FileA, FileB}}

PreInit ==
    /\ JockeyIdle
    /\ \E code \in Codes, files \in FileSystems :
          call = [fn |-> "preprocess", code |-> code, files |-> files]
    /\ ret = NotReturned

\* the call of preprocess returns
Preprocess ==
    /\ call.fn = "preprocess" /\ ret = NotReturned
    /\ ret' = preprocess(call.code, call.files)
    /\ UNCHANGED call
    /\ UNCHANGED jockeyvars

PreNext == Preprocess

PreSpec == PreInit /\ [][PreNext]_vars

\* ------------------------------------- util::compile_shader, link_program
\* what the driver answers to a compilation or a link: the status, and the
\* information log it holds (without the terminating NUL)
DriverAnswers ==
    {[status |-> st, log |-> log] :
        st \in BOOLEAN, log \in {<<>>, <<"e">>, <<"e", "r">>}}

\* GetShaderiv / GetProgramiv(INFO_LOG_LENGTH): the log with its NUL, 0 without a log
InfoLogLength(log) == IF log = <<>> THEN 0 ELSE Len(log) + 1

\* buf.set_len((len as usize).saturating_sub(1)); GetShaderInfoLog fills it
InfoLog(driver) ==
    SubSeq(driver.log, 1, Max(InfoLogLength(driver.log) - 1, 0))

\* a panic unwinds the thread of the frame loop: the process ends
Panic(msg) == [kind |-> "Panic", value |-> msg, reads |-> <<>>]

\* CString::new(src.as_bytes()): Err(NulError) if a byte of src is 0
HasNul(src) == \E i \in DOMAIN src : src[i] = "NUL"

\* compile_shader(src, ty); handle is what gl::CreateShader returned
compile_shader(src, ty, handle, driver) ==
    IF HasNul(src)
    THEN Panic("called Result::unwrap() on an Err value: NulError")
    ELSE IF ~driver.status THEN Err(InfoLog(driver), <<>>)
    ELSE Ok(handle, <<>>)

\* link_program(sh); handle is what gl::CreateProgram returned
link_program(sh, handle, driver) ==
    IF ~driver.status THEN Err(InfoLog(driver), <<>>)
    ELSE Ok(handle, <<>>)

RECURSIVE SeqsUpTo(_, _)
SeqsUpTo(S, n) ==
    IF n = 0 THEN {<<>>}
    ELSE LET shorter == SeqsUpTo(S, n - 1)
         IN shorter \cup {Append(q, x) : q \in shorter, x \in S}

\* shader sources: "c" is any character but NUL
Sources == SeqsUpTo({"c", "NUL"}, MaxSrcLen)

ShaderTypes == {"VERTEX_SHADER", "FRAGMENT_SHADER", "COMPUTE_SHADER"}

ShaderInit ==
    /\ JockeyIdle
    /\ \/ \E src \in Sources, ty \in ShaderTypes, driver \in DriverAnswers :
             call = [fn |-> "compile_shader", src |-> src, ty |-> ty,
                     handle |-> 1, driver |-> driver]
       \/ \E sh \in SeqsUpTo({1, 2}, 2), driver \in DriverAnswers :
             call = [fn |-> "link_program", sh |-> sh, handle |-> 3,
                     driver |-> driver]
    /\ ret = NotReturned

CompileShader ==
    /\ call.fn = "compile_shader" /\ ret = NotReturned
    /\ ret' = compile_shader(call.src, call.ty, call.handle, call.driver)
    /\ UNCHANGED call
    /\ UNCHANGED jockeyvars

LinkProgram ==
    /\ call.fn = "link_program" /\ ret = NotReturned
    /\ ret' = link_program(call.sh, call.handle, call.driver)
    /\ UNCHANGED call
    /\ UNCHANGED jockeyvars

ShaderNext == CompileShader \/ LinkProgram

ShaderSpec == ShaderInit /\ [][ShaderNext]_vars

\* ------------------------------------------ util::interlace, deinterlace
Value(v) == [kind |-> "Value", value |-> v]

\* interlace as it would be if it stopped where the shorter slice ends
RECURSIVE interlace_zip(_, _)
interlace_zip(first, second) ==
    IF first # <<>> /\ second # <<>>
    THEN <<Head(first), Head(second)>> \o interlace_zip(Tail(first), Tail(second))
    ELSE <<>>

\* while let (Some((fh, ft)), Some((sh, st))) = (first.split_first(), second.split_first())
RECURSIVE interlace_loop(_, _, _)
interlace_loop(first, second, out) ==
    IF first # <<>> /\ second # <<>>
    THEN interlace_loop(Tail(first), Tail(second),
                        out \o <<Head(first), Head(second)>>)
    ELSE out \o first \o second

interlace(first, second) == interlace_loop(first, second, <<>>)

\* Iterator::skip(n) and Iterator::step_by(n) on a slice
skip(slice, n) == SubSeq(slice, n + 1, Len(slice))
step_by(slice, n) ==
    [i \in 1..((Len(slice) + n - 1) \div n) |-> slice[(i - 1) * n + 1]]

\* deinterlace as it would be if the second half skipped two elements
deinterlace_skip_two(slice) ==
    <<step_by(slice, 2), step_by(skip(slice, 2), 2)>>

deinterlace(slice) ==
    <<step_by(slice, 2), step_by(skip(slice, 1), 2)>>

Elements == {1, 2}

\* the slices of the tests of util
TestSlices ==
    {<<1, 2, 3, 4>>, <<5, 6, 7, 8>>, <<1, 2, 3>>, <<4, 5, 6, 7, 8>>,
     <<1, 5, 2, 6, 3, 7, 4, 8>>, <<1, 2, 3, 4, 5>>}

InterlaceCall(first, second, origin) ==
    [fn |-> "interlace", first |-> first, second |-> second, origin |-> origin]

DeinterlaceCall(slice, origin) ==
    [fn |-> "deinterlace", slice |-> slice, origin |-> origin]

LaceInit ==
    /\ JockeyIdle
    /\ LET slices == SeqsUpTo(Elements, MaxSliceLen) \cup TestSlices
       IN \/ \E first \in slices, second \in slices :
                call = InterlaceCall(first, second, NoCall)
          \/ \E slice \in slices : call = DeinterlaceCall(slice, NoCall)
    /\ ret = NotReturned

Interlace ==
    /\ call.fn = "interlace" /\ ret = NotReturned
    /\ ret' = Value(interlace(call.first, call.second))
    /\ UNCHANGED call
    /\ UNCHANGED jockeyvars

Deinterlace ==
    /\ call.fn = "deinterlace" /\ ret = NotReturned
    /\ ret' = Value(deinterlace(call.slice))
    /\ UNCHANGED call
    /\ UNCHANGED jockeyvars

\* the caller gives what one of the two returned to the other
PassOn ==
    /\ call.fn \in {"interlace", "deinterlace"}
    /\ ret # NotReturned /\ call.origin = NoCall
    /\ call' = IF call.fn = "interlace"
               THEN DeinterlaceCall(ret.value, call)
               ELSE InterlaceCall(ret.value[1], ret.value[2], call)
    /\ ret' = NotReturned
    /\ UNCHANGED jockeyvars

LaceNext == Interlace \/ Deinterlace \/ PassOn

LaceSpec == LaceInit /\ [][LaceNext]_vars

\* --------------------------------------------------------- util::Geometry
\* A call on a Geometry holds the Geometry (&mut self) and the GL context as
\* they are when the call is made; what it returns holds them as the call
\* left them, with the value returned.  gl.arrays are the names of the vertex
\* array objects that exist, gl.log the GL calls made through the Geometry.

\* the calls the owner of a Geometry makes on it, the first one included
MaxOps == 4

\* Option<GLuint>: None, Some(vao)
NoVao == <<>>
Some(vao) == <<vao>>

\* the value of a call that returns ()
Unit == <<>>

\* Geometry::init(count), with the attributes and indices the owner then sets
Geometry_init(count, attributes, indices) ==
    [count |-> count, mode |-> "TRIANGLES", attributes |-> attributes,
     indices |-> indices, vao |-> NoVao]

\* Geometry::fullscreen_rect()
fullscreen_rect ==
    [Geometry_init(4, {0}, FALSE) EXCEPT !.mode = "TRIANGLE_STRIP"]

Returns(value, self, gl) == [kind |-> "Value", value |-> value, self |-> self, gl |-> gl]

\* the orders in which self.attributes.iter_mut() may visit the attributes
IterOrders(attributes) ==
    {order \in SeqsUpTo(attributes, Cardinality(attributes)) :
        /\ Len(order) = Cardinality(attributes)
        /\ \A i, j \in DOMAIN order : order[i] = order[j] => i = j}

\* the body of the loop over the attributes
RECURSIVE AttributeCalls(_, _)
AttributeCalls(order, i) ==
    IF i > Len(order) THEN <<>>
    ELSE <<GlCall("GeometryAttribute::buffer", 0, order[i], 0, None, NoRes),
           GlCall("EnableVertexAttribArray", 0, order[i], 0, None, NoRes),
           GlCall("GeometryAttribute::vertex_attrib_pointer", 0, order[i], 0, None, NoRes)>>
         \o AttributeCalls(order, i + 1)

\* delete_vao as it would be if it left the id in self.vao
delete_vao_keeps_id(self, gl) ==
    IF self.vao = NoVao THEN Returns(Unit, self, gl)
    ELSE Returns(Unit, self,
                 [arrays |-> gl.arrays \ {self.vao[1]},
                  log |-> Append(gl.log,
                                 GlCall("DeleteVertexArrays", 0, 1, self.vao[1], None, NoRes))])

\* pub fn vao(&mut self) -> GLuint
vao(self, gl, order) ==
    IF self.vao = NoVao
    THEN LET id == LowestFree(gl.arrays)
         IN Returns(id, [self EXCEPT !.vao = Some(id)],
                    [arrays |-> gl.arrays \cup {id},
                     log |-> gl.log
                             \o <<GlCall("GenVertexArrays", 0, 1, id, None, NoRes),
                                  GlCall("BindVertexArray", 0, 0, id, None, NoRes)>>
                             \o (IF self.indices
                                 THEN <<GlCall("GeometryAttribute::buffer", 0, 0, 0,
                                               "indices", NoRes)>>
                                 ELSE <<>>)
                             \o AttributeCalls(order, 1)])
    ELSE Returns(self.vao[1], self, gl)

\* pub fn delete_vao(&mut self)
delete_vao(self, gl) ==
    IF self.vao = NoVao THEN Returns(Unit, self, gl)
    ELSE Returns(Unit, [self EXCEPT !.vao = NoVao],
                 [arrays |-> gl.arrays \ {self.vao[1]},
                  log |-> Append(gl.log,
                                 GlCall("DeleteVertexArrays", 0, 1, self.vao[1], None, NoRes))])

\* impl Drop for Geometry: fn drop(&mut self)
drop(self, gl) == delete_vao(self, gl)

\* the geometries the calls are made on
Geometries ==
    {fullscreen_rect, Geometry_init(3, {}, FALSE), Geometry_init(3, {0, 2}, TRUE)}

\* the vertex array objects of others that exist when the Geometry is made
OtherArrays == SUBSET {1, 2}

GeometryCalls == {"vao", "delete_vao", "drop"}

GeometryCall(fn, self, gl, ops) == [fn |-> fn, self |-> self, gl |-> gl, ops |-> ops]

GeoInit ==
    /\ JockeyIdle
    /\ \E fn \in GeometryCalls, self \in Geometries, arrays \in OtherArrays :
          call = GeometryCall(fn, self, [arrays |-> arrays, log |-> <<>>], 1)
    /\ ret = NotReturned

Vao ==
    /\ call.fn = "vao" /\ ret = NotReturned
    /\ \E order \in IterOrders(call.self.attributes) :
          ret' = vao(call.self, call.gl, order)
    /\ UNCHANGED call
    /\ UNCHANGED jockeyvars

DeleteVao ==
    /\ call.fn = "delete_vao" /\ ret = NotReturned
    /\ ret' = delete_vao(call.self, call.gl)
    /\ UNCHANGED call
    /\ UNCHANGED jockeyvars

\* the Geometry goes out of scope
Drop ==
    /\ call.fn = "drop" /\ ret = NotReturned
    /\ ret' = drop(call.self, call.gl)
    /\ UNCHANGED call
    /\ UNCHANGED jockeyvars

\* the owner makes its next call on the Geometry; there is none after drop
NextCall ==
    /\ call.fn \in {"vao", "delete_vao"}
    /\ ret # NotReturned /\ call.ops < MaxOps
    /\ \E fn \in GeometryCalls :
          call' = GeometryCall(fn, ret.self, ret.gl, call.ops + 1)
    /\ ret' = NotReturned
    /\ UNCHANGED jockeyvars

GeoNext == Vao \/ DeleteVao \/ Drop \/ NextCall

GeoSpec == GeoInit /\ [][GeoNext]_vars

\* ------------------------------------------------------------ properties
\* the step in which handle_events returns after calling update_pipeline
ReloadStep == pc = "poll" /\ pc' = "idle" /\ frame.do_update_pipeline

\* the part of a log that follows the start of the load
AfterLoadBegin(log) ==
    LET b == CHOOSE i \in DOMAIN log : log[i].op = "LoadBegin"
    IN SubSeq(log, b + 1, Len(log))

IsGen(c) == c.op \in {"GenTextures", "GenFramebuffers"}
IsDelete(c) == c.op \in {"DeleteTextures", "DeleteFramebuffers"}

\* C1: when a reload attempt fails, whatever the reason, the active pipeline
\* after the attempt is exactly the one before it and a diagnostic is printed;
\* and in every state the active pipeline is the empty one of Pipeline::new()
\* or was built by a load that succeeded, never by one that failed.
C1_FailedReloadKeepsPipeline ==
    /\ [](pipeline.src = "new"
          \/ \E d \in Descriptions :
                /\ d.name = pipeline.src
                /\ PipelineLoad(d, window, {}).ok
                /\ Len(pipeline.stages) = Len(d.stages)
                /\ DOMAIN pipeline.buffers = BufferNames(d))
    /\ []((frame.attempts = 1 /\ ~frame.ok) => frame.stderr # None)
    /\ [][(ReloadStep /\ ~frame'.ok) => pipeline' = pipeline]_vars

\* a reload failed on an unresolved name while the full pipeline was active
C1_Witness ==
    /\ pc = "idle" /\ frame.attempts = 1 /\ ~frame.ok
    /\ frame.stderr = "Failed to load pipeline" /\ pipeline.src = "full"
    /\ \E i \in DOMAIN gl_log : gl_log[i].op = "LoadBegin"

\* C2: on a reload the textures and framebuffers of the old pipeline are
\* deleted only after every object of the new pipeline has been created, each
\* exactly once, and the new objects are created while the old ones still
\* exist; a failed reload deletes none of them.
C2_OldReleasedAfterBuild ==
    [][ReloadStep =>
        LET log == AfterLoadBegin(gl_log')
            old == TextureIds(pipeline)
        IN IF frame'.ok
           THEN /\ \A x \in old : \A kind \in {"DeleteTextures", "DeleteFramebuffers"} :
                      Cardinality({i \in DOMAIN log : log[i].op = kind /\ log[i].id = x}) = 1
                /\ \A i, j \in DOMAIN log : (IsDelete(log[i]) /\ IsGen(log[j])) => j < i
                /\ TextureIds(pipeline') \cap old = {}
                /\ gl_textures' = (gl_textures \ old) \cup TextureIds(pipeline')
           ELSE /\ \A i \in DOMAIN log : IsDelete(log[i]) => log[i].id \notin old
                /\ old \subseteq gl_textures'
                /\ gl_textures' = gl_textures]_vars

\* a reload succeeded and released the two buffers of the old pipeline
C2_Witness ==
    /\ pc = "idle" /\ frame.attempts = 1 /\ frame.ok
    /\ \E i \in DOMAIN gl_log : gl_log[i].op = "LoadBegin"
    /\ Cardinality({i \in DOMAIN gl_log : gl_log[i].op = "DeleteTextures"}) >= 2
    /\ Cardinality({i \in DOMAIN gl_log : gl_log[i].op = "GenTextures"}) >= 1

\* C3: under a fair frame loop every signal raised by the watcher is
\* eventually followed by a reload attempt that starts after it (or the
\* program ends).
C3_SignalsAnswered == pending ~> (~pending \/ ~Running)

\* C4: a reload triggered by the file-change signal never starts less than
\* DEBOUNCE_MS after the previous load completed, the first load included.
C4_FileReloadAfterInterval ==
    [][(ReloadStep /\ frame.file_trigger) => since_load >= DEBOUNCE_MS]_vars

\* C5: once the loop of handle_events has taken a Ctrl+Return event, that call
\* of handle_events ends with a reload attempt, whatever the flag was and
\* however recent the last build is.
C5_ManualReloadForces ==
    /\ [][(pc = "poll" /\ pc' = "poll" /\ frame'.manual) => frame'.do_update_pipeline]_vars
    /\ [][(pc = "poll" /\ pc' = "idle" /\ frame.manual)
             => (frame'.attempts = 1 /\ since_build' = 0)]_vars

\* a manual reload ran although the flag had been raised within the debounce
\* window (the debounce test had failed in that frame)
C5_Witness ==
    /\ pc = "idle" /\ frame.manual /\ frame.attempts = 1
    /\ frame.read /\ ~frame.file_trigger

\* C6: the watcher only ever stores true; the flag goes from true to false
\* only in the swap of handle_events, which then has read true; the swap reads
\* and clears in one step; so a set is either read by this frame's swap or is
\* still set at the next one.
C6_FlagProtocol ==
    [][/\ Watcher => FILE_CHANGE'
       /\ (~FILE_CHANGE /\ FILE_CHANGE') => Watcher
       /\ (FILE_CHANGE /\ ~FILE_CHANGE') => (HandleEventsBegin /\ frame'.read)
       /\ HandleEventsBegin => (frame'.read = FILE_CHANGE /\ ~FILE_CHANGE')
       /\ (pc = "poll" /\ FILE_CHANGE) => FILE_CHANGE']_vars

\* the watcher raised the flag again after this frame's swap had read it
C6_Witness == pc = "poll" /\ frame.read /\ FILE_CHANGE

\* the declared resolution of a Fixed buffer of the active pipeline
DeclaredRes(src, name) ==
    LET d == CHOOSE x \in Descriptions : x.name = src
        i == CHOOSE k \in DOMAIN d.buffers : d.buffers[k].name = name
    IN d.buffers[i].res

\* C7: when a call of handle_events that took a Resized(w, h) event has
\* returned, every WindowSized buffer of the active pipeline has resolution
\* (w, h) and every Fixed buffer its declared one.
C7_ResizeReachesBuffers ==
    (pc = "idle" /\ frame.resized # NoRes) =>
        \A n \in DOMAIN pipeline.buffers :
            IF pipeline.buffers[n].policy = "WindowSized"
            THEN pipeline.buffers[n].res = frame.resized
            ELSE pipeline.buffers[n].res = DeclaredRes(pipeline.src, n)

\* C8: every dependency and target name of every stage of the active pipeline
\* is a key of its buffer map, every named target has a framebuffer, and draw
\* has never panicked.
C8_NamesResolve ==
    /\ ~panicked
    /\ \A k \in DOMAIN pipeline.stages :
          LET stage == pipeline.stages[k]
          IN /\ \A j \in DOMAIN stage.deps : stage.deps[j] \in DOMAIN pipeline.buffers
             /\ stage.target # None =>
                   /\ stage.target \in DOMAIN pipeline.buffers
                   /\ pipeline.buffers[stage.target].kind = "FrameBuffer"
                   /\ pipeline.buffers[stage.target].fb # 0

\* draw ran on the full pipeline after a resize and a failed reload
C8_Witness ==
    /\ pipeline.src = "full" /\ frame.resized # NoRes
    /\ frame.attempts = 1 /\ ~frame.ok
    /\ \E i \in DOMAIN gl_log : gl_log[i].op = "BindFramebuffer" /\ gl_log[i].id # 0

\* the dispatching calls of stage k in a log
DispatchesOf(log, k) ==
    {i \in DOMAIN log : log[i].stage = k /\ log[i].op \in {"DrawArrays", "DispatchCompute"}}

\* C9: one call of draw executes every stage of the active pipeline exactly
\* once and in declared order: the calls of the frame are one block per stage,
\* the blocks in stage order, each beginning with the stage's UseProgram,
\* holding one draw or dispatch, and ending with the one push of a sample into
\* the stage's rolling average.
C9_EachStageOnceInOrder ==
    [][(pc = "idle" /\ pc' = "idle" /\ since_build' = since_build
        /\ FILE_CHANGE' = FILE_CHANGE /\ pending' = pending /\ Draw) =>
        LET log == gl_log'
            n == Len(pipeline.stages)
        IN /\ {log[i].stage : i \in DOMAIN log} = 1..n
           /\ \A i \in DOMAIN log :
                 /\ (log[i].op = "UseProgram")
                       = (i = 1 \/ log[i - 1].stage # log[i].stage)
                 /\ (log[i].op = "PerfPush")
                       = (i = Len(log) \/ log[i + 1].stage # log[i].stage)
                 /\ i < Len(log) => log[i + 1].stage \in {log[i].stage, log[i].stage + 1}
           /\ n > 0 => log[1].stage = 1
           /\ \A k \in 1..n :
                 /\ Cardinality(DispatchesOf(log, k)) = 1
                 /\ pipeline'.stages[k].perf = (pipeline.stages[k].perf + 1) % PerfLen
           /\ Len(pipeline'.stages) = n]_vars

\* a draw of the four stages of the full pipeline has completed
C9_Witness ==
    /\ Len(pipeline.stages) = 4
    /\ \E i \in DOMAIN gl_log : gl_log[i].op = "PerfPush" /\ gl_log[i].stage = 4
    /\ pipeline.stages[1].perf = 1

ReadsOrDispatches(c) ==
    c.op \in {"ActiveTexture", "BindTexture", "BindImageTexture", "DrawArrays",
              "DispatchCompute"}

\* C10: in the calls of a frame every compute dispatch is followed by a memory
\* barrier, and that barrier comes before any later texture binding, draw or
\* dispatch.
C10_BarrierAfterCompute ==
    \A i \in DOMAIN gl_log : gl_log[i].op = "DispatchCompute" =>
        /\ \E b \in DOMAIN gl_log : b > i /\ gl_log[b].op = "MemoryBarrier"
        /\ \A j \in DOMAIN gl_log : (j > i /\ ReadsOrDispatches(gl_log[j])) =>
              \E b \in DOMAIN gl_log : i < b /\ b < j /\ gl_log[b].op = "MemoryBarrier"

\* a later stage of the frame bound the buffer the compute stage works on
C10_Witness ==
    \E i, j \in DOMAIN gl_log :
        /\ i < j
        /\ gl_log[i].op = "DispatchCompute"
        /\ gl_log[j].op = "BindTexture" /\ gl_log[j].name = "b"
        /\ gl_log[j].stage > gl_log[i].stage

\* ------------------------------------------------------ properties of draw
\* the step in which the frame loop calls draw
DrawStep ==
    /\ pc = "idle" /\ pc' = "idle" /\ since_build' = since_build
    /\ FILE_CHANGE' = FILE_CHANGE /\ pending' = pending
    /\ Draw

\* a call of draw that carries an effective resolution: the uniform R, the viewport
CarriesResolution(c) ==
    c.op = "Viewport" \/ (c.op = "Uniform3f" /\ c.name = "R")

\* C15 as stated: the resolution of the uniform R and of the viewport of every
\* stage is the (w, h) of the stage's override whenever there is one, whatever
\* its depth, and the window's exactly when there is none.
C15_OverrideWhateverDepth ==
    \A i \in DOMAIN gl_log : CarriesResolution(gl_log[i]) =>
        LET stage == pipeline.stages[gl_log[i].stage]
        IN gl_log[i].res = IF stage.resolution # NoRes
                           THEN <<stage.resolution[1], stage.resolution[2]>>
                           ELSE window

\* C15 as amended: the resolution of the uniform R and of the viewport of
\* every stage is the (w, h) of the stage's override when there is one and its
\* depth is 0, and the window's when there is none or its depth is not 0.
C15_OverrideOfDepthZero ==
    \A i \in DOMAIN gl_log : CarriesResolution(gl_log[i]) =>
        LET stage == pipeline.stages[gl_log[i].stage]
        IN gl_log[i].res = IF stage.resolution # NoRes /\ stage.resolution[3] = 0
                           THEN <<stage.resolution[1], stage.resolution[2]>>
                           ELSE window

\* after a resize a stage whose override has depth 1 was drawn at the size of
\* the window
C15_Witness ==
    /\ pipeline.src = "small" /\ window # InitialWindow
    /\ pipeline.stages[1].resolution # NoRes /\ pipeline.stages[1].resolution[3] # 0
    /\ \E i \in DOMAIN gl_log :
          /\ gl_log[i].op = "Viewport" /\ gl_log[i].stage = 1
          /\ gl_log[i].res = window

\* the index at which the stage that issues call i began: its UseProgram
StageBegin(log, i) ==
    CHOOSE j \in 1..i :
        /\ log[j].op = "UseProgram"
        /\ \A x \in (j + 1)..i : log[x].op # "UseProgram"

\* ActiveTexture selects the unit that BindTexture binds to
RECURSIVE BindCalls(_, _, _, _)
BindCalls(log, j, upto, units) ==
    IF j > upto THEN units
    ELSE BindCalls(log, j + 1, upto,
             IF log[j].op = "ActiveTexture"
             THEN [units EXCEPT !.active = log[j].n]
             ELSE IF log[j].op = "BindTexture"
                  THEN [units EXCEPT !.bound[units.active] = log[j].id]
             ELSE units)

\* what the stage that issues call upto has bound to the texture units by
\* then; 0 is a unit the stage has not bound
GlUnits(log, upto) ==
    BindCalls(log, StageBegin(log, upto), upto,
              [active |-> 0, bound |-> [u \in 0..Len(log) |-> 0]])

IsDispatch(c) == c.op \in {"DrawArrays", "DispatchCompute"}

\* C16: when a stage draws or dispatches, texture unit k - 1 holds the texture
\* of the k-th name of its dependency list, for every k, and the stage has set
\* the sampler uniform of that name to k - 1.
C16_DependenciesOnUnits ==
    \A i \in DOMAIN gl_log : IsDispatch(gl_log[i]) =>
        LET stage == pipeline.stages[gl_log[i].stage]
            units == GlUnits(gl_log, i)
        IN \A k \in DOMAIN stage.deps :
              /\ units.bound[k - 1] = pipeline.buffers[stage.deps[k]].id
              /\ \E j \in 1..(i - 1) :
                    /\ gl_log[j].op = "Uniform1i" /\ gl_log[j].stage = gl_log[i].stage
                    /\ gl_log[j].name = stage.deps[k] /\ gl_log[j].n = k - 1

\* a stage with two dependencies drew with two different textures on units 0 and 1
C16_Witness ==
    \E i \in DOMAIN gl_log :
        /\ gl_log[i].op = "DrawArrays"
        /\ Len(pipeline.stages[gl_log[i].stage].deps) = 2
        /\ GlUnits(gl_log, i).bound[0] # 0
        /\ GlUnits(gl_log, i).bound[1] # 0
        /\ GlUnits(gl_log, i).bound[0] # GlUnits(gl_log, i).bound[1]

\* C17: no full-screen stage is drawn while depth testing is enabled, whether
\* it was enabled earlier in the same call of draw or in an earlier one.
C17_FullscreenWithoutDepthTest ==
    [][DrawStep =>
        \A i \in DOMAIN gl_log' :
            (gl_log'[i].op = "DrawArrays" /\ pipeline.stages[gl_log'[i].stage].kind = "Frag")
                => ~DepthTestAfter(gl_depth_test, SubSeq(gl_log', 1, i))]_vars

\* C21: after a raster stage has drawn, a GenerateMipmap call of that stage
\* follows exactly when the stage has a named target, and then it is issued
\* with the target's texture bound; a stage that draws to the display surface
\* issues no GenerateMipmap.
C21_MipmapsOnlyForNamedTarget ==
    \A i \in DOMAIN gl_log : gl_log[i].op = "DrawArrays" =>
        LET k == gl_log[i].stage
            stage == pipeline.stages[k]
            regenerated == {j \in (i + 1)..Len(gl_log) :
                               gl_log[j].op = "GenerateMipmap" /\ gl_log[j].stage = k}
        IN IF stage.target = None THEN regenerated = {}
           ELSE /\ regenerated # {}
                /\ \A j \in regenerated : gl_log[j].id = pipeline.buffers[stage.target].id

\* C22: the dependency-binding step binds every dependency to image unit 0
\* with read-only access, never as a writable image.
C22_DependenciesReadOnly ==
    \A i \in DOMAIN gl_log : gl_log[i].op = "BindImageTexture" =>
        /\ gl_log[i].n = 0
        /\ gl_log[i].name = "READ_ONLY"
        /\ gl_log[i].name \notin {"WRITE_ONLY", "READ_WRITE"}

\* ------------------------------------------------- properties of preprocess
Returned == ret.kind # "NotReturned"

Range(seq) == {seq[i] : i \in DOMAIN seq}

\* the file names of the directives of a text, in order
RECURSIVE Directives(_)
Directives(code) ==
    LET m == INCLUDE_RE_find(code)
    IN IF ~m.found THEN <<>>
       ELSE <<m.file>> \o Directives(SubSeq(code, m.end + 1, Len(code)))

\* the include graph: the files the directives of file f name
Includes(f, files) ==
    IF f \in DOMAIN files /\ files[f].ok THEN Range(Directives(files[f].text)) ELSE {}

RECURSIVE Closure(_, _, _)
Closure(S, files, n) ==
    IF n = 0 THEN S
    ELSE Closure(S \cup UNION {Includes(f, files) : f \in S}, files, n - 1)

\* the files included from within the expansion of the files of S
Below(S, files) ==
    Closure(UNION {Includes(f, files) : f \in S}, files, Cardinality(DOMAIN files))

\* the files a text includes, directly or through other files
Reached(code, files) ==
    LET direct == Range(Directives(code))
    IN direct \cup Below(direct, files)

IsCycleError(r) ==
    r.kind = "Err" /\ r.value.text = CycleDetected(<<>>).text

\* C11: where A includes B and B includes A, expanding the contents of A
\* fails with the cycle error that names A.
C11_CycleErrorNamesA ==
    (/\ Returned
     /\ call.files[FileA] = Readable(Directive("B"))
     /\ call.files[FileB] = Readable(Directive("A"))
     /\ call.code = call.files[FileA].text)
        => (ret.kind = "Err" /\ ret.value = CycleDetected(FileA))

\* C12: a text that includes one file twice, one directive after the other,
\* expands with the file's contents inserted twice; and a cycle error is
\* raised only for a file that is included from within its own expansion.
C12_SeenHoldsPathOnly ==
    /\ (/\ Returned
        /\ call.code = Directive("C") \o <<"NL">> \o Directive("C")
        /\ FileC \in DOMAIN call.files
        /\ call.files[FileC] = Readable(<<"c">>))
          => (ret.kind = "Ok" /\ ret.value = <<"c", "NL", "c">>)
    /\ (Returned /\ IsCycleError(ret))
          => ret.value.file \in Below({ret.value.file}, call.files)

\* each directive replaced in place by the expansion of the file it names
RECURSIVE Expanded(_, _)
Expanded(code, files) ==
    LET m == INCLUDE_RE_find(code)
    IN IF ~m.found THEN code
       ELSE SubSeq(code, 1, m.start - 1)
            \o Expanded(files[m.file].text, files)
            \o Expanded(SubSeq(code, m.end + 1, Len(code)), files)

\* every directive of the text and of the files it reaches, one entry each
AllDirectives(code, files) ==
    LET fs == SetToSeq(Reached(code, files))
        F[i \in 0..Len(fs)] ==
            IF i = 0 THEN Directives(code)
            ELSE F[i - 1] \o (IF fs[i] \in DOMAIN files /\ files[fs[i]].ok
                              THEN Directives(files[fs[i]].text) ELSE <<>>)
    IN F[Len(fs)]

\* the include graph of the text is acyclic, every file of it can be read and
\* no file is included more than once
AcyclicNoRepeat(code, files) ==
    LET all == AllDirectives(code, files)
    IN /\ \A f \in Reached(code, files) :
             /\ f \in DOMAIN files /\ files[f].ok
             /\ f \notin Below({f}, files)
       /\ \A i, j \in DOMAIN all : all[i] = all[j] => i = j

\* C13: for an acyclic include graph in which no file is included more than
\* once, preprocess returns Ok with every directive replaced in place by the
\* expanded contents of its file, the other text kept in order, and no
\* directive left in the result.
C13_AcyclicFlattened ==
    (Returned /\ AcyclicNoRepeat(call.code, call.files))
        => /\ ret.kind = "Ok"
           /\ ret.value = Expanded(call.code, call.files)
           /\ ~INCLUDE_RE_find(ret.value).found

CannotBeRead(f, files) == f \notin DOMAIN files \/ ~files[f].ok

\* C14: when preprocess has tried to read a file that cannot be read, at
\* whatever depth, it returns Err with the text of that I/O error and nothing
\* else, and it has read no file after that one.
C14_UnreadableIncludeFails ==
    Returned =>
        \A i \in DOMAIN ret.reads :
            CannotBeRead(ret.reads[i], call.files) =>
                /\ i = Len(ret.reads)
                /\ ret.kind = "Err"
                /\ ret.value = [text |-> IF ret.reads[i] \in DOMAIN call.files
                                         THEN call.files[ret.reads[i]].err
                                         ELSE NotFound,
                                file |-> None]

\* the file that cannot be read was named two files below the text, which
\* has text before and after its directive
C14_Witness ==
    /\ Returned /\ ret.kind = "Err"
    /\ Len(ret.reads) = 3
    /\ ret.value.text = PermissionDenied
    /\ Len(call.code) > 4

\* C23: whatever preprocess is called on, also where a file includes itself
\* or two files include each other, what the call returns is Ok or Err, and
\* the number of file expansions it nested in each other is at most the number
\* of distinct file names: of the names it read, and of the files there are.
C23_PreprocessTerminates ==
    (call.fn = "preprocess" /\ Returned)
        => /\ ret.kind \in {"Ok", "Err"}
           /\ ret.depth <= Cardinality(Range(ret.reads))
           /\ ret.depth <= Cardinality(DOMAIN call.files)

\* the text includes A, A and B include each other: the call returned the
\* cycle error from within two nested expansions
C23_Witness ==
    /\ Returned /\ IsCycleError(ret)
    /\ FileA \in Range(Directives(call.code))
    /\ FileA \in Below({FileA}, call.files)
    /\ FileB \in Below({FileB}, call.files)
    /\ ret.depth = 2

\* ------------------------- properties of compile_shader and link_program
\* C18: every call of compile_shader and of link_program returns: Ok with the
\* handle when the driver reports success, Err with the driver's log when it
\* reports a failure; none ends the process.
C18_BuildReturnsOkOrErr ==
    Returned =>
        /\ ret.kind \in {"Ok", "Err"}
        /\ ret.kind = "Ok" => (call.driver.status /\ ret.value = call.handle)
        /\ ret.kind = "Err" => (~call.driver.status /\ ret.value = call.driver.log)

\* ------------------------------- properties of interlace and deinterlace
\* C19: interlace(a, b) has length |a| + |b|, holds a[i] and b[i] next to
\* each other for every i up to the length of the shorter one, and ends with
\* the rest of the longer one in its order.
C19_InterlaceShape ==
    (Returned /\ call.fn = "interlace") =>
        LET a == call.first
            b == call.second
            out == ret.value
            m == Min(Len(a), Len(b))
        IN /\ Len(out) = Len(a) + Len(b)
           /\ \A i \in 1..m : out[2 * i - 1] = a[i] /\ out[2 * i] = b[i]
           /\ SubSeq(out, 2 * m + 1, Len(out))
                 = SubSeq(a, m + 1, Len(a)) \o SubSeq(b, m + 1, Len(b))

\* the call of the test interlace_unbalanced has returned what the test expects
C19_Witness ==
    /\ Returned /\ call.fn = "interlace"
    /\ call.first = <<1, 2, 3>> /\ call.second = <<4, 5, 6, 7, 8>>
    /\ ret.value = <<1, 4, 2, 5, 3, 6, 7, 8>>

\* C20: deinterlace(s) returns the elements of s at the even indices 0, 2, ..
\* and those at the odd indices, each in order; interlace applied to what
\* deinterlace(s) returned gives s; and deinterlace applied to interlace(a, b)
\* gives (a, b) when |a| = |b| or |a| = |b| + 1.
C20_DeinterlaceInverts ==
    /\ (Returned /\ call.fn = "deinterlace") =>
          LET s == call.slice
              evens == ret.value[1]
              odds == ret.value[2]
          IN /\ Len(evens) = (Len(s) + 1) \div 2
             /\ Len(odds) = Len(s) \div 2
             /\ \A i \in DOMAIN evens : evens[i] = s[2 * i - 1]
             /\ \A i \in DOMAIN odds : odds[i] = s[2 * i]
    /\ (Returned /\ call.fn = "interlace" /\ call.origin # NoCall) =>
          ret.value = call.origin.slice
    /\ (Returned /\ call.fn = "deinterlace" /\ call.origin # NoCall) =>
          LET a == call.origin.first
              b == call.origin.second
          IN (Len(a) = Len(b) \/ Len(a) = Len(b) + 1) => ret.value = <<a, b>>

\* deinterlace has returned the two halves of an interlace(a, b) with |a| = |b| + 1
C20_Witness ==
    /\ Returned /\ call.fn = "deinterlace" /\ call.origin # NoCall
    /\ Len(call.origin.first) = Len(call.origin.second) + 1
    /\ Len(call.origin.second) >= 2
    /\ ret.value = <<call.origin.first, call.origin.second>>

\* ------------------------------------------------- properties of Geometry
IsGeometryCall == call.fn \in GeometryCalls

\* the Geometry and the GL context as the last call left them
GeometryNow == IF Returned THEN ret.self ELSE call.self
ContextNow == IF Returned THEN ret.gl ELSE call.gl

\* the vertex array objects the Geometry has created and not deleted, after
\* the first n calls of the log
RECURSIVE OwnedAfter(_, _)
OwnedAfter(log, n) ==
    IF n = 0 THEN {}
    ELSE IF log[n].op = "GenVertexArrays" THEN OwnedAfter(log, n - 1) \cup {log[n].id}
    ELSE IF log[n].op = "DeleteVertexArrays" THEN OwnedAfter(log, n - 1) \ {log[n].id}
    ELSE OwnedAfter(log, n - 1)

CountOf(log, op) == Cardinality({i \in DOMAIN log : log[i].op = op})

C25_OneReloadAtTheEnd ==
    [][/\ pc' = "poll" => CountOf(gl_log', "LoadBegin") = 0
       /\ (pc = "poll" /\ pc' = "idle") =>
             LET attempts == IF frame.file_trigger \/ frame.manual THEN 1 ELSE 0
             IN /\ CountOf(gl_log', "LoadBegin") = attempts
                /\ frame'.attempts = attempts
                /\ attempts = 1 =>
                      /\ SubSeq(gl_log', 1, Len(gl_log)) = gl_log
                      /\ gl_log'[Len(gl_log) + 1].op = "LoadBegin"
                      /\ since_build' = 0
                /\ attempts = 0 => since_build' = since_build]_vars

\* the flag passed the debounce test and a manual trigger came in the same
\* call as a resize of the window; the one attempt failed and the debounce
\* reference time is reset
C25_Witness ==
    /\ pc = "idle" /\ frame.file_trigger /\ frame.manual
    /\ frame.resized # NoRes
    /\ frame.attempts = 1 /\ ~frame.ok
    /\ CountOf(gl_log, "LoadBegin") = 1
    /\ since_build = 0

====
